---- MODULE Spec2Model ----
(***************************************************************************)
(* A model of packages/pdf-creator/src/PdfCreator.ts: the PdfCreator       *)
(* document (pages, current-page cursor, object counter, image registry,   *)
(* header/footer guard), its drawing operations, the header/footer pass    *)
(* and the serializer buildPdf.                                            *)
(*                                                                         *)
(* Lengths and coordinates are integers in hundredths of a point           *)
(* (841.89 pt = 84189).  A string is a sequence of one-character strings;  *)
(* a character outside ASCII is written by its name ("U+20AC").            *)
(***************************************************************************)
EXTENDS Integers, Sequences, FiniteSets, TLC

VARIABLES config, headerHeight, footerHeight, pages, currentPageIndex,
          objectCounter, images, isApplyingHeaderFooter, pending,
          last, requests, returned, startPageCalls, overflowPages, ops,
          serial

vars == <<config, headerHeight, footerHeight, pages, currentPageIndex,
          objectCounter, images, isApplyingHeaderFooter, pending,
          last, requests, returned, startPageCalls, overflowPages, ops,
          serial>>

\* ------------------------------------------------------------------ bounds
\* Operations a client issues on one document (completions of a pending
\* addImage are not counted: they are the event loop's, not the client's).
MaxOps == 3
\* addImage calls in flight at once.
MaxPending == 2

\* --------------------------------------------------------------- constants
Pt(n) == n * 100
PAGE_WIDTH == 59528
PAGE_HEIGHT == 84189
MAX_HEADER_HEIGHT == Pt(200)
MAX_FOOTER_HEIGHT == Pt(200)

\* A constructor that stores the configured height as it is.
MinUnclamped(a, b) == a

Min(a, b) == IF a < b THEN a ELSE b

\* An optional field of a JS options object: o.f when present, else d.
Opt(o, f, d) == IF f \in DOMAIN o THEN o[f] ELSE d

RECURSIVE SumSeq(_)
SumSeq(s) == IF s = <<>> THEN 0 ELSE Head(s) + SumSeq(Tail(s))

\* Array.prototype.indexOf / Object.keys(..).indexOf: 0-based, -1 if absent.
RECURSIVE IndexFrom(_, _, _)
IndexFrom(s, e, i) ==
  IF i > Len(s) THEN -1 ELSE IF s[i] = e THEN i - 1 ELSE IndexFrom(s, e, i + 1)
IndexOf(s, e) == IndexFrom(s, e, 1)

\* ----------------------------------------------------------------- strings
RECURSIVE Flatten(_)
Flatten(ss) == IF ss = <<>> THEN <<>> ELSE Head(ss) \o Flatten(Tail(ss))

\* String.prototype.replace(/c/g, rep) for a one-character pattern.
ReplaceAll(s, c, rep) ==
  Flatten([i \in 1..Len(s) |-> IF s[i] = c THEN rep ELSE <<s[i]>>])

BACKSLASH == "\\"

\* An escapeText that replaces the parentheses before the backslashes.
escapeTextParensFirst(text) ==
  ReplaceAll(ReplaceAll(ReplaceAll(text, "(", <<BACKSLASH, "(">>),
                        ")", <<BACKSLASH, ")">>),
             BACKSLASH, <<BACKSLASH, BACKSLASH>>)

\* escapeText: three global replaces, in the code's order.
escapeText(text) ==
  ReplaceAll(ReplaceAll(ReplaceAll(text, BACKSLASH, <<BACKSLASH, BACKSLASH>>),
                        "(", <<BACKSLASH, "(">>),
             ")", <<BACKSLASH, ")">>)

UpperToLower ==
  [c \in {"A","B","C","D","E","F","G","H","I","J","K","L","M","N","O","P","Q",
          "R","S","T","U","V","W","X","Y","Z"} |->
     CASE c = "A" -> "a" [] c = "B" -> "b" [] c = "C" -> "c" [] c = "D" -> "d"
       [] c = "E" -> "e" [] c = "F" -> "f" [] c = "G" -> "g" [] c = "H" -> "h"
       [] c = "I" -> "i" [] c = "J" -> "j" [] c = "K" -> "k" [] c = "L" -> "l"
       [] c = "M" -> "m" [] c = "N" -> "n" [] c = "O" -> "o" [] c = "P" -> "p"
       [] c = "Q" -> "q" [] c = "R" -> "r" [] c = "S" -> "s" [] c = "T" -> "t"
       [] c = "U" -> "u" [] c = "V" -> "v" [] c = "W" -> "w" [] c = "X" -> "x"
       [] c = "Y" -> "y" [] c = "Z" -> "z"]

toLowerCase(s) ==
  [i \in 1..Len(s) |-> IF s[i] \in DOMAIN UpperToLower THEN UpperToLower[s[i]] ELSE s[i]]

\* Number.prototype.toString for a non-negative integer.
RECURSIVE Decimal(_)
Decimal(n) ==
  LET d == <<"0","1","2","3","4","5","6","7","8","9">>[(n % 10) + 1]
  IN IF n < 10 THEN <<d>> ELSE Decimal(n \div 10) \o <<d>>

\* Characters of the model that are not ASCII, with their UTF-16 code unit.
\* The two "0x.." characters are bytes of a binary string returned by atob.
WideChar == [c \in {"U+20AC", "U+00E9", "0xFF", "0xD8"} |->
               CASE c = "U+20AC" -> 8364 [] c = "U+00E9" -> 233
                 [] c = "0xFF" -> 255 [] c = "0xD8" -> 216]

\* UTF-16 length of the decimal rendering of n/100 (sign, integer part,
\* fraction without trailing zeros).  Binary floating-point residue, which
\* can lengthen a rendering in the running program, is left out: every use
\* measures the same string for the buffer and for the offset.
NumLen(v) ==
  LET a == IF v < 0 THEN -v ELSE v
      frac == IF a % 100 = 0 THEN 0 ELSE IF a % 10 = 0 THEN 2 ELSE 3
  IN (IF v < 0 THEN 1 ELSE 0) + Len(Decimal(a \div 100)) + frac

\* Length of `${c/255}` for a channel byte c (shortest round-trip decimal).
ChannelLenTable ==
  << 1, 19, 19, 20, 19, 18, 20, 20, 19, 19, 18, 20, 20, 20, 20, 20, 19, 19, 19, 19, 18, 19, 19, 19, 19, 19, 19, 19, 19, 19, 19, 19,
     19, 19, 19, 19, 18, 18, 19, 19, 18, 18, 19, 19, 19, 19, 18, 18, 19, 19, 19, 3, 19, 19, 19, 19, 18, 18, 19, 19, 19, 19, 19, 19,
     19, 18, 19, 18, 19, 19, 19, 18, 18, 19, 18, 19, 18, 19, 18, 19, 18, 18, 18, 18, 19, 18, 19, 18, 19, 19, 19, 18, 18, 19, 18, 19,
     18, 18, 18, 19, 19, 17, 3, 17, 19, 18, 19, 18, 18, 19, 19, 19, 18, 19, 18, 19, 18, 18, 18, 18, 19, 18, 19, 18, 19, 19, 19, 18,
     18, 18, 18, 18, 18, 18, 18, 18, 18, 18, 18, 18, 18, 18, 18, 18, 18, 18, 18, 18, 18, 18, 18, 17, 17, 3, 18, 18, 17, 17, 18, 18,
     18, 18, 18, 18, 18, 18, 18, 18, 18, 18, 18, 18, 18, 18, 18, 18, 18, 18, 18, 18, 18, 18, 18, 18, 18, 18, 18, 18, 18, 18, 18, 18,
     18, 18, 18, 18, 18, 18, 18, 18, 18, 17, 17, 17, 3, 17, 17, 18, 18, 18, 18, 18, 18, 18, 18, 18, 18, 18, 18, 18, 18, 18, 18, 18,
     18, 18, 18, 18, 18, 18, 18, 18, 18, 18, 18, 18, 18, 18, 18, 18, 18, 18, 18, 18, 18, 18, 18, 18, 18, 18, 18, 17, 18, 18, 17, 1 >>
ChannelLen(c) == ChannelLenTable[c + 1]

\* ------------------------------------------------------------------- fonts
Suffix(s, n) == IF Len(s) < n THEN <<>> ELSE SubSeq(s, Len(s) - n + 1, Len(s))

FamilyKeys == << <<"h","e","l","v","e","t","i","c","a">>,
                 <<"t","i","m","e","s">>,
                 <<"c","o","u","r","i","e","r">> >>
StyleSuffixes == << <<>>, <<"-","b","o","l","d">>, <<"-","i","t","a","l","i","c">>,
                    <<"-","b","o","l","d","i","t","a","l","i","c">> >>

\* Object.keys(this.standardFonts), in insertion order, and the values.
standardFontKeys ==
  [i \in 1..12 |-> FamilyKeys[((i - 1) \div 4) + 1] \o StyleSuffixes[((i - 1) % 4) + 1]]
standardFontNames ==
  << "Helvetica", "Helvetica-Bold", "Helvetica-Oblique", "Helvetica-BoldOblique",
     "Times-Roman", "Times-Bold", "Times-Italic", "Times-BoldItalic",
     "Courier", "Courier-Bold", "Courier-Oblique", "Courier-BoldOblique" >>

\* `${font.toLowerCase()}-${style.toLowerCase()}`.replace(/-normal$/, '')
FontKey(font, style) ==
  LET k == toLowerCase(font) \o <<"-">> \o toLowerCase(style)
  IN IF Suffix(k, 7) = <<"-","n","o","r","m","a","l">>
     THEN SubSeq(k, 1, Len(k) - 7) ELSE k

\* this.standardFonts[fontKey] || 'Helvetica'
PdfFontName(fontKey) ==
  IF IndexOf(standardFontKeys, fontKey) >= 0
  THEN standardFontNames[IndexOf(standardFontKeys, fontKey) + 1] ELSE "Helvetica"

\* `F${Object.keys(this.standardFonts).indexOf(fontKey) + 1}`
FontResourceName(fontKey) ==
  <<"F">> \o Decimal(IndexOf(standardFontKeys, fontKey) + 1)

\* parseInt of a run of decimal digits.
RECURSIVE ParseInt(_)
ParseInt(ds) ==
  IF ds = <<>> THEN 0
  ELSE 10 * ParseInt(SubSeq(ds, 1, Len(ds) - 1))
       + IndexOf(<<"0","1","2","3","4","5","6","7","8","9">>, ds[Len(ds)])

\* The BaseFont buildPdf writes for resource name f (lines 382-385):
\* the table's value at index parseInt(f.substring(1)) - 1, and the text
\* "undefined" when that index is outside the table.
BaseFontOf(f) ==
  LET fontIndex == ParseInt(Tail(f)) - 1
  IN IF fontIndex >= 0 /\ fontIndex < 12 THEN standardFontNames[fontIndex + 1]
     ELSE "undefined"

\* ------------------------------------------------------------------ colour
HexDigits == <<"0","1","2","3","4","5","6","7","8","9","a","b","c","d","e","f">>
IsHex(c) == IndexOf(HexDigits, c) >= 0 \/ c \in {"A","B","C","D","E","F"}
HexVal(c) == IndexOf(HexDigits, IF c \in DOMAIN UpperToLower THEN UpperToLower[c] ELSE c)

\* A hexToRgb whose pattern has no i flag: lower-case digits only.
hexToRgbNoCase(hex) ==
  LET h == IF hex # <<>> /\ hex[1] = "#" THEN Tail(hex) ELSE hex
  IN IF Len(h) = 6 /\ \A i \in 1..6 : IndexOf(HexDigits, h[i]) >= 0
     THEN [r |-> 16 * HexVal(h[1]) + HexVal(h[2]),
           g |-> 16 * HexVal(h[3]) + HexVal(h[4]),
           b |-> 16 * HexVal(h[5]) + HexVal(h[6])]
     ELSE [r |-> 0, g |-> 0, b |-> 0]

\* hexToRgb: the channels as bytes n, standing for n/255; black when the
\* pattern /^#?([a-f\d]{2})([a-f\d]{2})([a-f\d]{2})$/i does not match.
hexToRgb(hex) ==
  LET h == IF hex # <<>> /\ hex[1] = "#" THEN Tail(hex) ELSE hex
  IN IF Len(h) = 6 /\ \A i \in 1..6 : IsHex(h[i])
     THEN [r |-> 16 * HexVal(h[1]) + HexVal(h[2]),
           g |-> 16 * HexVal(h[3]) + HexVal(h[4]),
           b |-> 16 * HexVal(h[5]) + HexVal(h[6])]
     ELSE [r |-> 0, g |-> 0, b |-> 0]

\* ---------------------------------------------------------------- document
\* The mutable fields of a PdfCreator, as one value the operations transform.
\* startPageCalls counts the explicit addPage calls (a client's or a
\* callback's), overflowPages the pages the overflow rule appended.
Doc == [pages |-> pages, currentPageIndex |-> currentPageIndex,
        objectCounter |-> objectCounter, images |-> images,
        isApplyingHeaderFooter |-> isApplyingHeaderFooter,
        pending |-> pending, startPageCalls |-> startPageCalls,
        overflowPages |-> overflowPages]

\* A resource set that never takes a new name.
SetKeep(s, e) == s

\* Set.prototype.add on an insertion-ordered set.
SetAdd(s, e) == IF IndexOf(s, e) >= 0 THEN s ELSE Append(s, e)

\* An allocator that returns the counter without advancing it.
getNextIdStuck(d) == [id |-> d.objectCounter, d |-> d]

\* getNextId: return this.objectCounter++
getNextId(d) == [id |-> d.objectCounter,
                 d |-> [d EXCEPT !.objectCounter = @ + 1]]

addPage(d) ==
  LET a == getNextId(d)
      b == getNextId(a.d)
  IN [b.d EXCEPT !.pages = Append(@, [id |-> a.id, contentId |-> b.id,
                                      content |-> <<>>, fonts |-> <<>>,
                                      images |-> <<>>]),
                 !.currentPageIndex = Len(d.pages)]

setPage(d, index) ==
  IF index >= 0 /\ index < Len(d.pages)
  THEN [d EXCEPT !.currentPageIndex = index] ELSE d

\* The footer-overlap test of addText and addImage (lines 168-169, 259-260).
Overflows(guard, y, extent) ==
  ~guard /\ y + extent > PAGE_HEIGHT - footerHeight

\* A guard that only keeps the pass from adding a page: the placement is
\* still moved under the header band.
PlacedYGuardOnPageOnly(guard, y, extent) ==
  IF y + extent > PAGE_HEIGHT - footerHeight THEN headerHeight + Pt(20) ELSE y

\* The y a call is placed at (lines 169-173, 260-264): y is reassigned to
\* headerHeight + 20 when the test holds, and is the caller's otherwise.
PlacedY(guard, y, extent) ==
  IF Overflows(guard, y, extent) THEN headerHeight + Pt(20) ELSE y

DefaultFont == <<"h","e","l","v","e","t","i","c","a">>
DefaultStyle == <<"n","o","r","m","a","l">>
DefaultColor == <<"#","0","0","0","0","0","0">>

\* addText.  tag = [by, pass, n] records who issued the call ("client", or
\* the part of the header/footer pass), in which output request and for which
\* page number (0 for a client); reqY is the
\* y the caller passed, pdfFontName the font line 181 resolves.  Returns the document and the returned y.
addText(d, text, x, y, options, tag) ==
  LET size == Opt(options, "size", Pt(12))
      font == Opt(options, "font", DefaultFont)
      style == Opt(options, "style", DefaultStyle)
      color == Opt(options, "color", DefaultColor)
      align == Opt(options, "align", "left")
      over == Overflows(d.isApplyingHeaderFooter, y, size)
      d1 == IF over THEN [addPage(d) EXCEPT !.overflowPages = @ + 1] ELSE d
      y1 == PlacedY(d.isApplyingHeaderFooter, y, size)
      pdfY == PAGE_HEIGHT - y1
      fontKey == FontKey(font, style)
      fontResourceName == FontResourceName(fontKey)
      rgb == hexToRgb(color)
      xOffset == CASE align = "center" -> x - ((Len(text) * size * 3) \div 10)
                   [] align = "right" -> x - ((Len(text) * size * 6) \div 10)
                   [] OTHER -> x
      frag == [kind |-> "text", font |-> fontResourceName, size |-> size,
               rgb |-> rgb, x |-> xOffset, pdfY |-> pdfY,
               lit |-> escapeText(text), text |-> text,
               pdfFontName |-> PdfFontName(fontKey),
               by |-> tag.by, pass |-> tag.pass, n |-> tag.n, reqY |-> y]
      cp == d1.currentPageIndex + 1
  IN [d |-> [d1 EXCEPT !.pages[cp].fonts = SetAdd(@, fontResourceName),
                       !.pages[cp].content = Append(@, frag)],
      ret |-> y1]

\* What a caller can observe of the document: the pages, the cursor, the
\* counter and the registry, as they are when a call starts.
Snapshot(d) == [pages |-> d.pages, currentPageIndex |-> d.currentPageIndex,
                objectCounter |-> d.objectCounter, images |-> d.images]

\* addImage up to its await (lines 258-267): the overflow check, then the
\* call of processImage, which leaves the rest of addImage pending.
addImageStart(d, source, x, y, options, tag) ==
  LET over == Overflows(d.isApplyingHeaderFooter, y, options.height)
      d1 == IF over THEN [addPage(d) EXCEPT !.overflowPages = @ + 1] ELSE d
      y1 == PlacedY(d.isApplyingHeaderFooter, y, options.height)
  IN [d1 EXCEPT !.pending = Append(@, [source |-> source, x |-> x, y |-> y1,
                                       options |-> options, by |-> tag.by,
                                       pass |-> tag.pass, n |-> tag.n,
                                       reqY |-> y, before |-> Snapshot(d),
                                       over |-> over,
                                       page |-> d1.currentPageIndex])]

\* processImage: what the awaited promise settles to.  env is what the host
\* does: "fetch" and "read" fail the fetch of a URL or the FileReader,
\* "decode" is img.onerror, "canvas" a null 2d context, "ok" the JPEG data
\* URL of the canvas.  jpeg is the re-encoded payload (as atob returns it).
IsUrl(source) == source.kind = "url"
\* The base64 text of a byte string, kept as the bytes it encodes.
Base64(bytes) == [encodes |-> bytes]
processImage(source, env, jpeg) ==
  IF IsUrl(source) /\ env \in {"fetch", "read"}
  THEN [ok |-> FALSE, error |-> env]
  ELSE IF env \in {"decode", "canvas"} THEN [ok |-> FALSE, error |-> env]
  ELSE [ok |-> TRUE, prefix |-> "data:image/jpeg;base64,", base64 |-> Base64(jpeg)]

\* A key taken from the payload instead: every payload of the model is the
\* same JPEG, so every call gets the same key.
ImageKeyByContent(n) == <<"I", "1">>

\* `I${this.images.size + 1}`, n being this.images.size + 1.
ImageKey(n) == <<"I">> \o Decimal(n)
HasImage(imgs, key) == \E i \in 1..Len(imgs) : imgs[i].key = key
GetImage(imgs, key) == imgs[CHOOSE i \in 1..Len(imgs) : imgs[i].key = key]

\* An addImage that places on the last page of the document.
currentPageLast(d) == Len(d.pages)

\* Line 287: this.pages[this.currentPageIndex], as a position in pages.
currentPage(d) == d.currentPageIndex + 1

\* Lines 271-296 of addImage, writing to the page at position cp.  call is
\* the pending call, processed the resolved value.  The registry stores the
\* payload with the data-URL prefix stripped.
addImageCommit(d, call, processed, cp) ==
  LET base64Data == processed.base64
      imageKey == ImageKey(Len(d.images) + 1)
      a == getNextId(d)
      d1 == IF ~HasImage(d.images, imageKey)
            THEN [a.d EXCEPT !.images = Append(@, [key |-> imageKey, id |-> a.id,
                                                  width |-> call.options.width,
                                                  height |-> call.options.height,
                                                  data |-> base64Data])]
            ELSE d
      pdfY == PAGE_HEIGHT - call.y - call.options.height
      frag == [kind |-> "image", width |-> call.options.width,
               height |-> call.options.height, x |-> call.x, pdfY |-> pdfY,
               key |-> imageKey, by |-> call.by, pass |-> call.pass,
               n |-> call.n,
               reqY |-> call.reqY]
  IN [d |-> [d1 EXCEPT !.pages[cp].images = SetAdd(@, imageKey),
                       !.pages[cp].content = Append(@, frag)],
      ret |-> call.y]

\* An addImage that keeps the page it started on across its await.
addImageResumeOnItsPage(d, call, processed) ==
  addImageCommit(d, call, processed, call.page + 1)

\* addImage after its await resolved: the page is read from the cursor then
\* (line 287).
addImageResume(d, call, processed) ==
  addImageCommit(d, call, processed, currentPage(d))

\* An addImage that registered the image before awaiting its data.
addImageRejectRegistered(d, call) ==
  [d EXCEPT !.images = Append(@, [key |-> ImageKey(Len(d.images) + 1),
                                  id |-> d.objectCounter,
                                  width |-> call.options.width,
                                  height |-> call.options.height,
                                  data |-> Base64(<< >>)]),
            !.objectCounter = @ + 1]

\* addImage when its await rejected: the exception leaves addImage at line
\* 267 and nothing after it runs.
addImageReject(d, call) == d

RemoveAt(s, i) == SubSeq(s, 1, i - 1) \o SubSeq(s, i + 1, Len(s))

\* ------------------------------------------------------ header/footer pass
\* A header or footer callback is user code; the model runs a script:
\*   [kind |-> "text", text, x, y, options]   doc.addText(text + pageNum, ..)
\*   [kind |-> "image", source, x, y, options] doc.addImage(..), not awaited
\*   [kind |-> "addPage", at]                 doc.addPage() on page `at`
\*   [kind |-> "throw", at]                   throws on page `at`
\* Returns the document and whether the callback threw.
runCallback(d, cb, pageNum, tag) ==
  CASE cb.kind = "text" ->
         [d |-> addText(d, cb.text \o Decimal(pageNum), cb.x, cb.y,
                        cb.options, tag).d, threw |-> FALSE]
    [] cb.kind = "image" ->
         [d |-> addImageStart(d, cb.source, cb.x, cb.y, cb.options, tag),
          threw |-> FALSE]
    [] cb.kind = "addPage" ->
         [d |-> IF pageNum = cb.at
                THEN [addPage(d) EXCEPT !.startPageCalls = @ + 1] ELSE d,
          threw |-> FALSE]
    [] cb.kind = "throw" -> [d |-> d, threw |-> pageNum = cb.at]

\* The x of a default header or footer (lines 312-314, 330-332).
AlignX(align) ==
  CASE align = "center" -> PAGE_WIDTH \div 2
    [] align = "right" -> PAGE_WIDTH - Pt(20)
    [] OTHER -> Pt(20)

PageWord == <<"P","a","g","e"," ">>

\* Lines 307-317.
headerStep(d, pageNum, pass) ==
  IF "onHeader" \in DOMAIN config
  THEN runCallback(d, config.onHeader, pageNum, [by |-> "onHeader", pass |-> pass, n |-> pageNum])
  ELSE IF "defaultHeader" \in DOMAIN config
  THEN LET text == Opt(config.defaultHeader, "text", <<>>)
           align == Opt(config.defaultHeader, "align", "center")
           color == Opt(config.defaultHeader, "color", DefaultColor)
       IN IF text # <<>>
          THEN [d |-> addText(d, text, AlignX(align), Pt(20),
                              [size |-> Pt(10), align |-> align, color |-> color],
                              [by |-> "defaultHeader", pass |-> pass, n |-> pageNum]).d,
                threw |-> FALSE]
          ELSE [d |-> d, threw |-> FALSE]
  ELSE [d |-> d, threw |-> FALSE]

\* Lines 323-327: the text of the default footer on page pageNum.
FooterText(cfg, pageNum) ==
  LET text == Opt(cfg, "text", <<>>)
      showPageNumbers == Opt(cfg, "showPageNumbers", TRUE)
  IN IF showPageNumbers
     THEN IF text # <<>>
          THEN text \o <<" ","-"," ">> \o PageWord \o Decimal(pageNum)
          ELSE PageWord \o Decimal(pageNum)
     ELSE text

\* Lines 320-336.
footerStep(d, pageNum, pass) ==
  IF "onFooter" \in DOMAIN config
  THEN runCallback(d, config.onFooter, pageNum, [by |-> "onFooter", pass |-> pass, n |-> pageNum])
  ELSE IF "defaultFooter" \in DOMAIN config
  THEN LET footerText == FooterText(config.defaultFooter, pageNum)
           align == Opt(config.defaultFooter, "align", "center")
           color == Opt(config.defaultFooter, "color", DefaultColor)
       IN IF footerText # <<>>
          THEN [d |-> addText(d, footerText, AlignX(align), Pt(820),
                              [size |-> Pt(10), align |-> align, color |-> color],
                              [by |-> "defaultFooter", pass |-> pass, n |-> pageNum]).d,
                threw |-> FALSE]
          ELSE [d |-> d, threw |-> FALSE]
  ELSE [d |-> d, threw |-> FALSE]

\* The loop of applyHeaderFooter from index i on; this.pages.length is read
\* again at every iteration.  An exception leaves the loop and the method:
\* afterHeader and afterFooter continue an iteration with what its header
\* and its footer returned.
RECURSIVE hfLoop(_, _, _)
RECURSIVE afterHeader(_, _, _)
RECURSIVE afterFooter(_, _, _)
hfLoop(d, i, pass) ==
  IF ~(i < Len(d.pages)) THEN [d |-> d, threw |-> FALSE]
  ELSE afterHeader(headerStep(setPage(d, i), i + 1, pass), i, pass)
afterHeader(h, i, pass) ==
  IF h.threw THEN h ELSE afterFooter(footerStep(h.d, i + 1, pass), i, pass)
afterFooter(f, i, pass) ==
  IF f.threw THEN f ELSE hfLoop(f.d, i + 1, pass)

\* A pass that clears the guard but leaves the cursor where the loop put it.
afterLoopCursorLeft(r, originalPageIndex) ==
  IF r.threw THEN r
  ELSE [d |-> [r.d EXCEPT !.isApplyingHeaderFooter = FALSE], threw |-> FALSE]

\* Lines 338-339, reached only when the loop ended without an exception.
afterLoop(r, originalPageIndex) ==
  IF r.threw THEN r
  ELSE [d |-> [r.d EXCEPT !.currentPageIndex = originalPageIndex,
                          !.isApplyingHeaderFooter = FALSE],
        threw |-> FALSE]

applyHeaderFooter(d, pass) ==
  afterLoop(hfLoop([d EXCEPT !.isApplyingHeaderFooter = TRUE], 0, pass),
            d.currentPageIndex)

\* -------------------------------------------------------------- serializer
\* A piece of the output buffer: its length in UTF-16 code units (what
\* String.length counts) and the non-ASCII characters among them.
Piece(chars, wide) == [chars |-> chars, wide |-> wide]

IsWide(c) == c \in DOMAIN WideChar
WideOf(s) == SelectSeq(s, IsWide)

\* A serializer that encoded the buffer as UTF-8 instead.
Utf8BytesPerChar(c) ==
  IF IsWide(c) THEN (IF WideChar[c] < 2048 THEN 2 ELSE 3) ELSE 1

\* Bytes the final loop (lines 440-444) writes for one buffer character:
\* array[i] = buffer.charCodeAt(i) & 0xff, one element per code unit.
BytesPerChar(c) == 1

RECURSIVE SumBytes(_)
SumBytes(w) == IF w = <<>> THEN 0 ELSE BytesPerChar(Head(w)) + SumBytes(Tail(w))
EncodedLength(piece) == (piece.chars - Len(piece.wide)) + SumBytes(piece.wide)

\* The length of one content fragment, as addText / addImage build it.
FragLen(f) ==
  IF f.kind = "text"
  THEN Len("BT\n")
       + Len("/") + Len(f.font) + Len(" ") + NumLen(f.size) + Len(" Tf\n")
       + ChannelLen(f.rgb.r) + Len(" ") + ChannelLen(f.rgb.g) + Len(" ")
       + ChannelLen(f.rgb.b) + Len(" rg\n")
       + NumLen(f.x) + Len(" ") + NumLen(f.pdfY) + Len(" Td\n")
       + Len("(") + Len(f.lit) + Len(") Tj\n")
       + Len("ET\n")
  ELSE Len("q ") + NumLen(f.width) + Len(" 0 0 ") + NumLen(f.height) + Len(" ")
       + NumLen(f.x) + Len(" ") + NumLen(f.pdfY) + Len(" cm /") + Len(f.key)
       + Len(" Do Q\n")
FragWide(f) == IF f.kind = "text" THEN WideOf(f.lit) ELSE <<>>

\* page.content.join('\n')
StreamPiece(content) ==
  Piece(SumSeq([i \in 1..Len(content) |-> FragLen(content[i])])
          + (IF Len(content) > 0 THEN Len(content) - 1 ELSE 0),
        Flatten([i \in 1..Len(content) |-> FragWide(content[i])]))

\* Lines 373-388: the font entries of a page's resource dictionary.
FontEntries(page) ==
  [i \in 1..Len(page.fonts) |->
     [name |-> page.fonts[i], baseFont |-> BaseFontOf(page.fonts[i])]]
FontResLen(page) ==
  IF Len(page.fonts) > 0
  THEN Len("/Font << ")
       + SumSeq([i \in 1..Len(page.fonts) |->
                  Len("/") + Len(page.fonts[i])
                  + Len(" << /Type /Font /Subtype /Type1 /BaseFont /")
                  + Len(BaseFontOf(page.fonts[i])) + Len(" >> ")])
       + Len(">>")
  ELSE 0

\* Lines 390-398: the image entries of a page's resource dictionary.
XObjectEntries(page, imgs) ==
  [i \in 1..Len(page.images) |->
     [name |-> page.images[i], id |-> GetImage(imgs, page.images[i]).id]]
XObjectResLen(page, imgs) ==
  IF Len(page.images) > 0
  THEN Len("/XObject << ")
       + SumSeq([i \in 1..Len(page.images) |->
                  Len("/") + Len(page.images[i]) + Len(" ")
                  + Len(Decimal(GetImage(imgs, page.images[i]).id)) + Len(" 0 R ")])
       + Len(">>")
  ELSE 0

RefLen(id) == Len(Decimal(id)) + Len(" 0 R")

CatalogPiece(pagesRootId) ==
  Piece(Len("<< /Type /Catalog /Pages ") + RefLen(pagesRootId) + Len(" >>"), <<>>)

\* A page tree whose /Count leaves out the page the constructor added.
PagesRootDictExplicitOnly(d, pagesRootId) ==
  [id |-> pagesRootId,
   kids |-> [i \in 1..Len(d.pages) |-> d.pages[i].id],
   count |-> Len(d.pages) - 1]

\* Lines 367-368: the /Kids and /Count written into the page-tree object.
PagesRootDict(d, pagesRootId) ==
  [id |-> pagesRootId,
   kids |-> [i \in 1..Len(d.pages) |-> d.pages[i].id],
   count |-> Len(d.pages)]

\* pageIds joined by ' ', in the /Kids array of the page tree.
PagesRootPiece(pgs) ==
  Piece(Len("<< /Type /Pages /Kids [")
          + SumSeq([i \in 1..Len(pgs) |-> RefLen(pgs[i].id)])
          + (IF Len(pgs) > 0 THEN Len(pgs) - 1 ELSE 0)
          + Len("] /Count ") + Len(Decimal(Len(pgs))) + Len(" >>"), <<>>)

PagePiece(page, pagesRootId, imgs) ==
  Piece(Len("<< /Type /Page /Parent ") + RefLen(pagesRootId)
          + Len(" /MediaBox [0 0 595.28 841.89] /Contents ") + RefLen(page.contentId)
          + Len(" /Resources ")
          + Len("<< ") + FontResLen(page) + Len(" ") + XObjectResLen(page, imgs)
          + Len(" >>") + Len(" >>"), <<>>)

ContentPiece(page) ==
  LET st == StreamPiece(page.content)
  IN Piece(Len("<< /Length ") + Len(Decimal(st.chars)) + Len(" >>\nstream\n")
             + st.chars + Len("\nendstream"), st.wide)

\* atob(img.data): the binary string, one character per byte.
atob(data) == data.encodes
ImagePiece(img) ==
  LET binaryString == atob(img.data)
  IN Piece(Len("<< /Type /XObject /Subtype /Image /Width ") + NumLen(img.width)
             + Len(" /Height ") + NumLen(img.height)
             + Len(" /ColorSpace /DeviceRGB /BitsPerComponent 8 /Filter /DCTDecode /Length ")
             + Len(Decimal(Len(binaryString))) + Len(" >>\nstream\n")
             + Len(binaryString) + Len("\nendstream"),
           WideOf(binaryString))

\* The closure addObject (lines 351-358) on the serializer's running state
\* b = [currentOffset, bytes, xref, objects]: bytes is the index the object
\* header gets in the returned byte array, objects the emission log.
addObject(b, id, kind, content) ==
  LET fullObj == Piece(Len(Decimal(id)) + Len(" 0 obj\n") + content.chars
                         + Len("\nendobj\n"), content.wide)
  IN [currentOffset |-> b.currentOffset + fullObj.chars,
      bytes |-> b.bytes + EncodedLength(fullObj),
      xref |-> [k \in DOMAIN b.xref \cup {id} |->
                  IF k = id THEN b.currentOffset ELSE b.xref[k]],
      objects |-> Append(b.objects, [id |-> id, kind |-> kind,
                                     offset |-> b.currentOffset, at |-> b.bytes])]

\* pages.forEach (lines 371-406) from page i on.
RECURSIVE emitPages(_, _, _, _, _)
emitPages(b, pgs, i, pagesRootId, imgs) ==
  IF i > Len(pgs) THEN b
  ELSE emitPages(addObject(addObject(b, pgs[i].id, "page",
                                     PagePiece(pgs[i], pagesRootId, imgs)),
                           pgs[i].contentId, "content", ContentPiece(pgs[i])),
                 pgs, i + 1, pagesRootId, imgs)

\* images.forEach (lines 409-425) from entry i on.
RECURSIVE emitImages(_, _, _)
emitImages(b, imgs, i) ==
  IF i > Len(imgs) THEN b
  ELSE emitImages(addObject(b, imgs[i].id, "image", ImagePiece(imgs[i])), imgs, i + 1)

\* Lines 427-445: the xref loop over 1..objectCounter-1, the trailer and
\* the byte conversion, given the serializer's state b after the last
\* object.  When the loop reads an id with no recorded offset, xref[i] is
\* undefined and offset.toString() throws a TypeError: status "threw".
\* Else status "ok", with what the buffer holds.
writeXref(d, catalogId, pagesRootId, b) ==
  LET ids == 1..(d.objectCounter - 1)
      missing == {i \in ids : i \notin DOMAIN b.xref}
  IN IF missing # {}
     THEN [d |-> d, out |-> [status |-> "threw", error |-> "TypeError",
                             undefinedId |-> CHOOSE i \in missing :
                                               \A j \in missing : i <= j]]
     ELSE [d |-> d,
           out |-> [status |-> "ok",
                    objects |-> b.objects,
                    xrefEntries |-> [i \in ids |-> b.xref[i]],
                    xrefCount |-> d.objectCounter,
                    xrefAt |-> b.bytes,
                    startxref |-> b.currentOffset,
                    trailerSize |-> d.objectCounter,
                    root |-> catalogId,
                    catalog |-> [id |-> catalogId, pages |-> pagesRootId],
                    pagesRoot |-> PagesRootDict(d, pagesRootId),
                    pageDicts |-> [i \in 1..Len(d.pages) |->
                                     [id |-> d.pages[i].id, parent |-> pagesRootId,
                                      contents |-> d.pages[i].contentId,
                                      fonts |-> FontEntries(d.pages[i]),
                                      xobjects |-> XObjectEntries(d.pages[i], d.images)]],
                    streams |-> [i \in 1..Len(d.pages) |->
                                   [id |-> d.pages[i].contentId,
                                    length |-> StreamPiece(d.pages[i].content).chars,
                                    content |-> d.pages[i].content]]]]

\* A build that writes the image objects before the page objects.
emitObjectsImagesFirst(d, catalogId, pagesRootId) ==
  emitPages(
    emitImages(
      addObject(
        addObject([currentOffset |-> Len("%PDF-1.7\n"), bytes |-> Len("%PDF-1.7\n"),
                   xref |-> (0 :> 0), objects |-> << >>],
                  catalogId, "catalog", CatalogPiece(pagesRootId)),
        pagesRootId, "pages", PagesRootPiece(d.pages)),
      d.images, 1),
    d.pages, 1, pagesRootId, d.images)

\* Lines 347-425: the header line, then the catalog, the page tree, the
\* pages with their content streams, and the images.
emitObjects(d, catalogId, pagesRootId) ==
  emitImages(
    emitPages(
      addObject(
        addObject([currentOffset |-> Len("%PDF-1.7\n"), bytes |-> Len("%PDF-1.7\n"),
                   xref |-> (0 :> 0), objects |-> << >>],
                  catalogId, "catalog", CatalogPiece(pagesRootId)),
        pagesRootId, "pages", PagesRootPiece(d.pages)),
      d.pages, 1, pagesRootId, d.images),
    d.images, 1)

\* Lines 360-362: catalogId = getNextId(), then c = getNextId() for the
\* page tree; then the rest of buildPdf.
serialize(catalogId, c) ==
  writeXref(c.d, catalogId, c.id, emitObjects(c.d, catalogId, c.id))

\* A build that gives the page tree the id it has just given the catalog.
allocateRootsShared(a) == serialize(a.id, [id |-> a.id, d |-> a.d])

allocateRoots(a) == serialize(a.id, getNextId(a.d))

\* buildPdf after applyHeaderFooter returned hf (or threw).
afterPass(hf) ==
  IF hf.threw
  THEN [d |-> hf.d, out |-> [status |-> "threw", error |-> "callback"]]
  ELSE allocateRoots(getNextId(hf.d))

\* buildPdf: returns the document and the outcome of the call.
buildPdf(d, pass) == afterPass(applyHeaderFooter(d, pass))

\* ------------------------------------------------------------ environment
Hello == <<"H","e","l","l","o">>
Page2 == <<"P","a","g","e"," ","2">>
Special == <<"(","U+20AC",BACKSLASH,")">>
Red == <<"#","F","F","0","0","0","0">>

\* The addText calls a client issues.  The first two are the README's; the
\* third always overflows (835 + 12 > 841.89); the fourth overflows only
\* with a footer band above 129.89 and names a font outside the table.
TextCalls ==
  { [text |-> Hello, x |-> Pt(20), y |-> Pt(20),
     options |-> [size |-> Pt(24), color |-> Red]],
    [text |-> Page2, x |-> Pt(20), y |-> Pt(20), options |-> << >>],
    [text |-> Special, x |-> Pt(300), y |-> Pt(835),
     options |-> [font |-> <<"T","i","m","e","s">>, style |-> <<"b","o","l","d">>,
                  align |-> "right"]],
    [text |-> <<"A">>, x |-> Pt(300), y |-> Pt(700),
     options |-> [font |-> <<"A","r","i","a","l">>, color |-> <<"r","e","d">>,
                  align |-> "center"]] }

\* The addImage calls a client issues; the second always overflows.
ImageCalls ==
  { [source |-> [kind |-> "data"], x |-> Pt(20), y |-> Pt(50),
     options |-> [width |-> Pt(100), height |-> Pt(100)]],
    [source |-> [kind |-> "url"], x |-> Pt(20), y |-> Pt(780),
     options |-> [width |-> Pt(50), height |-> Pt(100)]] }

\* A document built with a header or footer configuration is driven with
\* the calls that matter to the pass: a text that fits, a text that always
\* overflows, an image that fits.
IsPlain(cfg) == DOMAIN cfg \subseteq {"headerHeight", "footerHeight"}
TextCallsOf(cfg) ==
  IF IsPlain(cfg) THEN TextCalls
  ELSE {c \in TextCalls : c.text \in {Page2, Special}}
ImageCallsOf(cfg) ==
  IF IsPlain(cfg) THEN ImageCalls
  ELSE {c \in ImageCalls : c.source.kind = "data"}

\* What the host can answer to processImage, and the JPEG it encodes.
Envs == {"ok", "fetch", "read", "decode", "canvas"}
Jpeg == <<"0xFF", "0xD8", "J">>

CbText == [kind |-> "text", text |-> PageWord, x |-> Pt(500), y |-> Pt(835),
           options |-> << >>]
CbImage == [kind |-> "image", source |-> [kind |-> "data"], x |-> Pt(20),
            y |-> Pt(800), options |-> [width |-> Pt(40), height |-> Pt(40)]]

\* The constructor's config objects.
Configs ==
  { << >>,
    [headerHeight |-> Pt(50), footerHeight |-> Pt(250)],
    [footerHeight |-> Pt(200), defaultFooter |-> [showPageNumbers |-> TRUE]],
    [defaultHeader |-> [text |-> <<"H">>, align |-> "left"],
     defaultFooter |-> [text |-> <<"F">>, showPageNumbers |-> FALSE, align |-> "right"]],
    [defaultHeader |-> [text |-> << >>], defaultFooter |-> [text |-> <<"F">>]],
    [headerHeight |-> Pt(250), footerHeight |-> Pt(250), onHeader |-> CbText,
     onFooter |-> CbText, defaultFooter |-> [showPageNumbers |-> TRUE]],
    [footerHeight |-> Pt(200), onFooter |-> CbImage],
    [onHeader |-> [kind |-> "throw", at |-> 2]],
    [onFooter |-> [kind |-> "throw", at |-> 1], defaultHeader |-> [text |-> <<"H">>]],
    [onHeader |-> [kind |-> "addPage", at |-> 1],
     defaultFooter |-> [showPageNumbers |-> TRUE]] }

\* ------------------------------------------------------------------ actions
EmptyDoc == [pages |-> << >>, currentPageIndex |-> -1, objectCounter |-> 1,
             images |-> << >>, isApplyingHeaderFooter |-> FALSE,
             pending |-> << >>, startPageCalls |-> 0, overflowPages |-> 0]

Commit(d) ==
  /\ pages' = d.pages
  /\ currentPageIndex' = d.currentPageIndex
  /\ objectCounter' = d.objectCounter
  /\ images' = d.images
  /\ isApplyingHeaderFooter' = d.isApplyingHeaderFooter
  /\ pending' = d.pending
  /\ startPageCalls' = d.startPageCalls
  /\ overflowPages' = d.overflowPages

\* The constructor (lines 90-98): clamp the reserved heights, add page one.
Init ==
  /\ config \in Configs
  /\ headerHeight = Min(Opt(config, "headerHeight", 0), MAX_HEADER_HEIGHT)
  /\ footerHeight = Min(Opt(config, "footerHeight", 0), MAX_FOOTER_HEIGHT)
  /\ LET d == addPage(EmptyDoc)
     IN /\ pages = d.pages
        /\ currentPageIndex = d.currentPageIndex
        /\ objectCounter = d.objectCounter
        /\ images = d.images
        /\ isApplyingHeaderFooter = d.isApplyingHeaderFooter
        /\ pending = d.pending
        /\ startPageCalls = 0
        /\ overflowPages = 0
  /\ last = [op |-> "new"]
  /\ requests = 0
  /\ returned = 0
  /\ ops = 0
  /\ serial = TRUE

\* No addImage call of the client is still at its await.  serial says that
\* the client has issued every operation so far in such a state: it awaited
\* each addImage before doing anything else.
ClientAwaited == \A i \in 1..Len(pending) : pending[i].by # "client"

Fixed == UNCHANGED <<config, headerHeight, footerHeight>>

\* A client calls addPage().
StartPage ==
  /\ ops < MaxOps
  /\ Commit([addPage(Doc) EXCEPT !.startPageCalls = @ + 1])
  /\ last' = [op |-> "addPage"]
  /\ ops' = ops + 1
  /\ serial' = (serial /\ ClientAwaited)
  /\ UNCHANGED <<requests, returned>> /\ Fixed

\* A client calls addText(..).
PlaceText ==
  /\ ops < MaxOps
  /\ \E call \in TextCallsOf(config) :
       LET r == addText(Doc, call.text, call.x, call.y, call.options,
                        [by |-> "client", pass |-> 0, n |-> 0])
       IN /\ Commit(r.d)
          /\ last' = [op |-> "addText", call |-> call, ret |-> r.ret]
  /\ ops' = ops + 1
  /\ serial' = (serial /\ ClientAwaited)
  /\ UNCHANGED <<requests, returned>> /\ Fixed

\* A client calls addImage(..): it runs to its await.
PlaceImage ==
  /\ ops < MaxOps
  /\ Len(pending) < MaxPending
  /\ \E call \in ImageCallsOf(config) :
       /\ Commit(addImageStart(Doc, call.source, call.x, call.y, call.options,
                               [by |-> "client", pass |-> 0, n |-> 0]))
       /\ last' = [op |-> "addImage", phase |-> "pending", call |-> call]
  /\ ops' = ops + 1
  /\ serial' = (serial /\ ClientAwaited)
  /\ UNCHANGED <<requests, returned>> /\ Fixed

\* The promise of a pending addImage resolves and addImage runs to its end.
ImageResolves ==
  /\ \E i \in 1..Len(pending), env \in Envs :
       LET call == pending[i]
           p == processImage(call.source, env, Jpeg)
           r == addImageResume([Doc EXCEPT !.pending = RemoveAt(@, i)], call, p)
       IN /\ p.ok
          /\ Commit(r.d)
          /\ last' = [op |-> "addImage", phase |-> "resolved", call |-> call,
                      ret |-> r.ret]
  /\ UNCHANGED <<requests, returned, ops, serial>> /\ Fixed

\* The promise of a pending addImage rejects: addImage rejects with it.
ImageRejects ==
  /\ \E i \in 1..Len(pending), env \in Envs :
       LET call == pending[i]
           p == processImage(call.source, env, Jpeg)
       IN /\ ~p.ok
          /\ Commit(addImageReject([Doc EXCEPT !.pending = RemoveAt(@, i)], call))
          /\ last' = [op |-> "addImage", phase |-> "rejected", call |-> call]
  /\ UNCHANGED <<requests, returned, ops, serial>> /\ Fixed

\* A client calls getOutput() or save(): both run buildPdf.
GetOutput ==
  /\ ops < MaxOps
  /\ LET r == buildPdf(Doc, requests + 1)
     IN /\ Commit(r.d)
        /\ last' = [op |-> "getOutput", request |-> requests + 1,
                    returnedBefore |-> returned, out |-> r.out]
        /\ returned' = IF r.out.status = "ok" THEN returned + 1 ELSE returned
  /\ requests' = requests + 1
  /\ ops' = ops + 1
  /\ serial' = (serial /\ ClientAwaited)
  /\ Fixed

Next ==
  \/ StartPage
  \/ PlaceText
  \/ PlaceImage
  \/ ImageResolves
  \/ ImageRejects
  \/ GetOutput

Spec == Init /\ [][Next]_vars

\* ------------------------------------------------- texts and colours
\* escapeText and hexToRgb are private: a client reaches them through
\* addText (lines 190 and 205).  SpecText is one addText on a new document
\* with no configuration, its text or its colour drawn from the sets below.
MaxLen == 4
TextAlphabet == {BACKSLASH, "(", ")", "n"}
RECURSIVE TextsUpTo(_)
TextsUpTo(n) ==
  IF n = 0 THEN {<< >>}
  ELSE TextsUpTo(n - 1)
         \cup {Append(t, c) : t \in TextsUpTo(n - 1), c \in TextAlphabet}

\* Two-character channels, well formed and not, and what may stand before
\* and after three of them.
Channels == { <<"0","0">>, <<"f","f">>, <<"F","F">>, <<"8","0">>, <<"0","a">>,
              <<"A","b">>, <<"g","0">>, <<"f">>, <<"-","1">> }
ColourPrefixes == { << >>, <<"#">>, <<"#","#">>, <<" ">> }
ColourSuffixes == { << >>, <<"0">>, <<"\n">> }
NamedColours == { <<"r","e","d">>, <<"b","l","a","c","k">>,
                  <<"r","g","b","(","2","5","5",",","0",",","0",")">>,
                  <<"0","x","F","F","0","0","0","0">>, <<"#","f","0","0">> }
Colours ==
  NamedColours
    \cup {p \o r \o g \o b \o e : p \in ColourPrefixes, r \in Channels,
                                  g \in Channels, b \in Channels,
                                  e \in ColourSuffixes}

InitText == Init /\ config = << >>

\* addText(text, 20, 20) for any text up to MaxLen characters.
PlaceAnyText ==
  /\ last.op = "new"
  /\ \E text \in TextsUpTo(MaxLen) :
       LET call == [text |-> text, x |-> Pt(20), y |-> Pt(20), options |-> << >>]
           r == addText(Doc, call.text, call.x, call.y, call.options,
                        [by |-> "client", pass |-> 0, n |-> 0])
       IN /\ Commit(r.d)
          /\ last' = [op |-> "addText", call |-> call, ret |-> r.ret]
  /\ ops' = ops + 1
  /\ serial' = (serial /\ ClientAwaited)
  /\ UNCHANGED <<requests, returned>> /\ Fixed

\* addText("Hello", 20, 20, {color}) for any colour string.
PlaceAnyColour ==
  /\ last.op = "new"
  /\ \E color \in Colours :
       LET call == [text |-> Hello, x |-> Pt(20), y |-> Pt(20),
                    options |-> [color |-> color]]
           r == addText(Doc, call.text, call.x, call.y, call.options,
                        [by |-> "client", pass |-> 0, n |-> 0])
       IN /\ Commit(r.d)
          /\ last' = [op |-> "addText", call |-> call, ret |-> r.ret]
  /\ ops' = ops + 1
  /\ serial' = (serial /\ ClientAwaited)
  /\ UNCHANGED <<requests, returned>> /\ Fixed

NextText ==
  \/ PlaceAnyText
  \/ PlaceAnyColour

SpecText == InitText /\ [][NextText]_vars

\* ------------------------------------------------------------------ claims
OutputReturned == last.op = "getOutput" /\ last.out.status = "ok"
Range(f) == {f[i] : i \in DOMAIN f}
Frags == UNION {Range(pages[i].content) : i \in 1..Len(pages)}
HasWideText == \E f \in Frags : f.kind = "text" /\ WideOf(f.lit) # << >>

\* C1: in the bytes the first output request returns, for every object id k
\* with 1 <= k < nextId, the offset in the cross-reference entry of k is the
\* byte index at which the header "k 0 obj" of the one object with id k
\* begins.
C1_XrefOffsetsAreByteIndexes ==
  (OutputReturned /\ last.request = 1) =>
    /\ DOMAIN last.out.xrefEntries = 1..(objectCounter - 1)
    /\ \A k \in 1..(objectCounter - 1) :
         LET at == {i \in 1..Len(last.out.objects) : last.out.objects[i].id = k}
         IN /\ Cardinality(at) = 1
            /\ \A i \in at : last.out.xrefEntries[k] = last.out.objects[i].at

\* C1's case: a first output with a character above 0xFF in a content
\* stream, two pages and an image object behind them.
C1_Witness ==
  /\ OutputReturned /\ last.request = 1
  /\ HasWideText /\ Len(pages) >= 2 /\ Len(images) >= 1

\* C2: after one output request has returned, every later output request on
\* the same document returns normally, with a recorded offset for every
\* object id from 1 to nextId-1.
C2_LaterOutputsReturn ==
  (last.op = "getOutput" /\ last.returnedBefore >= 1) =>
    /\ last.out.status = "ok"
    /\ DOMAIN last.out.xrefEntries = 1..(objectCounter - 1)

\* The extent a call is tested with, and what a call must do when issued,
\* when its text is placed and when its image is placed.
C3_Extent(call) ==
  IF "height" \in DOMAIN call.options THEN call.options.height
  ELSE Opt(call.options, "size", Pt(12))
C3_Over(call) == call.y + C3_Extent(call) > PAGE_HEIGHT - footerHeight
C3_Issued ==
  (last'.op = "addText" \/ (last'.op = "addImage" /\ last'.phase = "pending")) =>
    IF C3_Over(last'.call)
    THEN /\ Len(pages') = Len(pages) + 1
         /\ SubSeq(pages', 1, Len(pages)) = pages
         /\ currentPageIndex' = Len(pages)
    ELSE Len(pages') = Len(pages)
C3_TextPlaced ==
  last'.op = "addText" =>
    LET y == IF C3_Over(last'.call) THEN headerHeight + Pt(20) ELSE last'.call.y
        content == pages'[currentPageIndex' + 1].content
    IN /\ last'.ret = y
       /\ content # << >>
       /\ content[Len(content)].kind = "text"
       /\ content[Len(content)].text = last'.call.text
       /\ content[Len(content)].pdfY = PAGE_HEIGHT - y
C3_ImagePlaced ==
  (last'.op = "addImage" /\ last'.phase = "resolved" /\ last'.call.by = "client") =>
    LET call == last'.call
        y == IF call.reqY + call.options.height > PAGE_HEIGHT - footerHeight
             THEN headerHeight + Pt(20) ELSE call.reqY
        content == pages'[currentPageIndex' + 1].content
    IN /\ last'.ret = y
       /\ content # << >>
       /\ content[Len(content)].kind = "image"
       /\ content[Len(content)].pdfY = PAGE_HEIGHT - y - call.options.height
\* C3: outside the header/footer pass, a placeText call with
\* y + size > pageHeight - footerReservedHeight appends exactly one page,
\* makes it current, places its fragment on it at y = headerReservedHeight
\* + 20 and returns that y; a call that fits appends no page and returns
\* its y.  placeImage does the same with height for size: the page is
\* appended when the call is issued, the fragment placed when it resolves.
C3_OverflowRule == [][C3_Issued /\ C3_TextPlaced /\ C3_ImagePlaced]_vars

\* Callbacks that only place text or images; fragments of the pass sit where
\* they were asked to; an output request keeps the page count.
C4_CallbacksOnlyPlace ==
  \A k \in {"onHeader", "onFooter"} \cap DOMAIN config :
    config[k].kind \in {"text", "image"}
C4_AtRequestedY ==
  /\ \A f \in Frags : f.by # "client" =>
       f.pdfY = PAGE_HEIGHT - f.reqY - (IF f.kind = "image" THEN f.height ELSE 0)
  /\ \A c \in Range(pending) : c.by # "client" => (c.y = c.reqY /\ ~c.over)
C4_PageCountKept ==
  (last'.op = "getOutput" /\ C4_CallbacksOnlyPlace) => Len(pages') = Len(pages)
\* C4: the header/footer pass never triggers the overflow rule: with
\* callbacks that only place text and images, an output request leaves the
\* number of pages as it was, and every fragment (and every pending image)
\* issued by the pass is placed at the y that was requested.
C4_PassNeverOverflows == []C4_AtRequestedY /\ [][C4_PageCountKept]_vars

\* C4's case: a pass at the maximum reserved heights whose callbacks asked
\* for a y inside the footer band.
C4_Witness ==
  /\ OutputReturned
  /\ footerHeight = MAX_FOOTER_HEIGHT /\ headerHeight = MAX_HEADER_HEIGHT
  /\ \E f \in Frags : f.by = "onHeader" /\ f.reqY + f.size > PAGE_HEIGHT - footerHeight

\* Every object id the document has handed out, in order of owner.
C5_IssuedIds ==
  Flatten([i \in 1..Len(pages) |-> <<pages[i].id, pages[i].contentId>>])
    \o [i \in 1..Len(images) |-> images[i].id]
    \o (IF OutputReturned THEN <<last.out.catalog.id, last.out.pagesRoot.id>> ELSE << >>)
\* C5: object ids are issued strictly increasing from 1 without reuse: the
\* ids of the catalog, the page-tree root, the pages, the content streams
\* and the images are pairwise distinct and below the counter, and each page
\* has a content-stream id other than its own id and than any other page's.
C5_IdsDistinct ==
  /\ Cardinality(Range(C5_IssuedIds)) = Len(C5_IssuedIds)
  /\ \A id \in Range(C5_IssuedIds) : 1 <= id /\ id < objectCounter
  /\ \A i \in 1..Len(pages) :
       /\ pages[i].id < pages[i].contentId
       /\ i < Len(pages) => pages[i].contentId < pages[i + 1].id
  /\ \A i \in 1..(Len(images) - 1) : images[i].id < images[i + 1].id

\* C5's case: a serialized document with two pages and two images.
C5_Witness == OutputReturned /\ Len(pages) >= 2 /\ Len(images) >= 2

\* C6: the resource name /F<n> of every text fragment is declared in its
\* page's serialized font dictionary with the BaseFont resolved from the
\* normalized family-style key, Helvetica when the key is not in the table.
C6_FontDeclared ==
  OutputReturned =>
    \A i \in 1..Len(last.out.streams) :
      \A f \in Range(last.out.streams[i].content) :
        f.kind = "text" =>
          \E e \in Range(last.out.pageDicts[i].fonts) :
            e.name = f.font /\ e.baseFont = f.pdfFontName

\* C7: without an overflowing placement, the serialized page count (/Count
\* and the length of /Kids) is 1 + the number of startPage calls.
C7_PageCount ==
  /\ Len(pages) = 1 + startPageCalls + overflowPages
  /\ (OutputReturned /\ overflowPages = 0) =>
       /\ last.out.pagesRoot.count = 1 + startPageCalls
       /\ Len(last.out.pagesRoot.kids) = 1 + startPageCalls
       /\ last.out.pagesRoot.kids = [i \in 1..Len(pages) |-> pages[i].id]

\* C7's case: two startPage calls, then a serialization.
C7_Witness == OutputReturned /\ overflowPages = 0 /\ startPageCalls = 2

\* The configuration of the page-number footer, a pass that ran to its end,
\* and the default-footer fragments the last pass left on page n.
C8_Config ==
  /\ "defaultFooter" \in DOMAIN config /\ "onFooter" \notin DOMAIN config
  /\ "showPageNumbers" \in DOMAIN config.defaultFooter
  /\ config.defaultFooter.showPageNumbers
  /\ Opt(config.defaultFooter, "text", << >>) = << >>
PassCompleted ==
  last.op = "getOutput" /\ ~(last.out.status = "threw" /\ last.out.error = "callback")
C8_FooterOf(n) ==
  {j \in 1..Len(pages[n].content) :
     pages[n].content[j].by = "defaultFooter" /\ pages[n].content[j].pass = last.request}
\* C8: with a default footer of showPageNumbers true, no literal text and no
\* footer callback, a completed pass places on the n-th page, for every n,
\* exactly one footer fragment, whose text is "Page n".
C8_PageNumberFooter ==
  (C8_Config /\ PassCompleted) =>
    \A n \in 1..Len(pages) :
      /\ Cardinality(C8_FooterOf(n)) = 1
      /\ \A j \in C8_FooterOf(n) : pages[n].content[j].text = PageWord \o Decimal(n)

\* C8's case: a pass over three pages that hold content of their own.
C8_Witness ==
  /\ C8_Config /\ PassCompleted /\ Len(pages) >= 3
  /\ \E f \in Frags : f.by = "client"

\* What a resolved addImage does to the registry, and what holds of the
\* registry in every state.
C9_Registers ==
  IF last'.op = "addImage" /\ last'.phase = "resolved"
  THEN /\ Len(images') = Len(images) + 1
       /\ SubSeq(images', 1, Len(images)) = images
       /\ images'[Len(images')].key = <<"I">> \o Decimal(Len(images) + 1)
       /\ pages'[currentPageIndex' + 1].images # << >>
       /\ images'[Len(images')].key \in Range(pages'[currentPageIndex' + 1].images)
       /\ images'[Len(images')].id = objectCounter
       /\ objectCounter' = objectCounter + 1
  ELSE images' = images
C9_Distinct ==
  /\ \A i, j \in 1..Len(images) :
       i # j => (images[i].id # images[j].id /\ images[i].key # images[j].key)
  /\ OutputReturned =>
       \A i, j \in 1..Len(images) :
         /\ images[i].id \in DOMAIN last.out.xrefEntries
         /\ i # j => last.out.xrefEntries[images[i].id] # last.out.xrefEntries[images[j].id]
\* C9: every successful placeImage registers a new key I<n>, n the registry
\* size + 1, bound to a freshly allocated id, and nothing else changes the
\* registry; the registered ids are pairwise distinct, each has its own
\* cross-reference entry, and no registered key changes its id.
C9_ImageKeys == []C9_Distinct /\ [][C9_Registers]_vars

\* C9's case: two successful placements, then a serialization.
C9_Witness == OutputReturned /\ Len(images) = 2

\* What a rejected addImage changed, and what the call changed when issued.
C10_Rejected ==
  (last'.op = "addImage" /\ last'.phase = "rejected") =>
    /\ images' = images /\ objectCounter' = objectCounter /\ pages' = pages
C10_Issued ==
  (last'.op = "addImage" /\ last'.phase = "pending") =>
    /\ images' = images
    /\ SubSeq(pages', 1, Len(pages)) = pages
    /\ objectCounter' - objectCounter = 2 * (Len(pages') - Len(pages))
\* C10: a placeImage call whose ingestion fails rejects and changes nothing:
\* no registry entry, no id, no fragment or resource name on any page; and
\* the call as issued changed no page that existed before it, allocating
\* ids only for a page it appended.
C10_FailureConfined == [][C10_Rejected /\ C10_Issued]_vars

\* C10's case: a rejected call that had overflowed, on a document that
\* already held an image and a fragment.
C10_Witness ==
  /\ last.op = "addImage" /\ last.phase = "rejected" /\ last.call.over
  /\ Len(images) >= 1 /\ Frags # {}

\* An output request whose pass returned (the request may still have failed
\* later, in the serializer), and one whose pass a callback's exception left.
PassReturned == last.op = "getOutput" /\ ~(last.out.status = "threw" /\ last.out.error = "callback")
PassThrew == last.op = "getOutput" /\ last.out.status = "threw" /\ last.out.error = "callback"
C11_Restored ==
  (last'.op = "getOutput" /\ PassReturned') =>
    (currentPageIndex' = currentPageIndex /\ ~isApplyingHeaderFooter')
C11_NextTextAsBefore ==
  (PassReturned /\ last'.op = "addText") =>
    LET over == C3_Over(last'.call)
        target == IF over THEN Len(pages) + 1 ELSE currentPageIndex + 1
    IN /\ Len(pages') = Len(pages) + (IF over THEN 1 ELSE 0)
       /\ pages'[target].content # << >>
       /\ pages'[target].content[Len(pages'[target].content)].text = last'.call.text
       /\ \A i \in 1..Len(pages) : i # target => pages'[i] = pages[i]

\* C11: when the header/footer pass returns, the current-page index is the
\* one that was current when the pass started and the guard is clear; a
\* placeText issued next lands on that page, or on a new page by the
\* overflow rule.
C11_PassRestores == [][C11_Restored /\ C11_NextTextAsBefore]_vars

\* C11's case: a text placed after a pass that ran header and footer over
\* two pages or more, one of them added by the header callback.
C11_Witness ==
  /\ last.op = "addText" /\ requests >= 1 /\ Len(pages) >= 2
  /\ "onHeader" \in DOMAIN config /\ config.onHeader.kind = "addPage"
  /\ \E f \in Frags : f.by = "defaultFooter"

\* C12: in every serialized output the cross-reference section has nextId
\* entries, the free one and one per id 1..nextId-1 in id order; each of
\* these ids was emitted as exactly one object, at the offset of its entry;
\* the trailer's /Size is nextId and its /Root the id of the catalog object;
\* startxref is the byte offset at which the section begins.
C12_XrefAndTrailer ==
  OutputReturned =>
    LET out == last.out
        emitted(k) == {i \in 1..Len(out.objects) : out.objects[i].id = k}
    IN /\ out.xrefCount = objectCounter
       /\ DOMAIN out.xrefEntries = 1..(objectCounter - 1)
       /\ \A k \in 1..(objectCounter - 1) :
            /\ Cardinality(emitted(k)) = 1
            /\ \A i \in emitted(k) : out.objects[i].offset = out.xrefEntries[k]
       /\ \A i \in 1..Len(out.objects) : out.objects[i].id \in 1..(objectCounter - 1)
       /\ out.trailerSize = objectCounter
       /\ out.root = out.catalog.id
       /\ \E i \in 1..Len(out.objects) :
            out.objects[i].id = out.root /\ out.objects[i].kind = "catalog"
       /\ out.startxref = out.xrefAt

\* C12's case: an output with an image object behind the pages and a
\* character above 0xFF in a content stream.
C12_Witness ==
  /\ OutputReturned /\ objectCounter >= 7
  /\ \E i \in 1..Len(last.out.objects) : last.out.objects[i].kind = "image"
  /\ HasWideText

C13_Clamped(stored, option) ==
  /\ stored <= Pt(200)
  /\ IF option \in DOMAIN config
     THEN stored = (IF config[option] <= Pt(200) THEN config[option] ELSE Pt(200))
     ELSE stored = 0

\* C13: after construction each stored reserved height is at most 200: the
\* configured value when that is at most 200, 200 when it is larger, 0 when
\* the option is absent; and it stays so.
C13_ReservedHeightsClamped ==
  /\ C13_Clamped(headerHeight, "headerHeight")
  /\ C13_Clamped(footerHeight, "footerHeight")

\* C13's case: a document constructed with one height below the maximum and
\* one above it, in use.
C13_Witness ==
  /\ "headerHeight" \in DOMAIN config /\ config.headerHeight < Pt(200)
  /\ "footerHeight" \in DOMAIN config /\ config.footerHeight > Pt(200)
  /\ footerHeight = Pt(200) /\ ops >= 1

\* The page a call was initiated against, as a position in pages: the page
\* it appended if it overflowed, else the page current when it started.
C14_PageOf(call) ==
  IF call.over THEN Len(call.before.pages) + 1 ELSE call.before.currentPageIndex + 1
C14_Placed ==
  (last'.op = "addImage" /\ last'.phase = "resolved" /\ last'.call.by = "client"
     /\ serial') =>
    LET call == last'.call
        p == C14_PageOf(call)
        y == IF call.over THEN headerHeight + Pt(20) ELSE call.reqY
        content == pages'[p].content
    IN /\ p = call.page + 1
       /\ Len(content) = Len(pages[p].content) + 1
       /\ SubSeq(content, 1, Len(content) - 1) = pages[p].content
       /\ content[Len(content)].kind = "image"
       /\ content[Len(content)].pdfY = PAGE_HEIGHT - y - call.options.height
       /\ content[Len(content)].key = images'[Len(images')].key
       /\ content[Len(content)].key \in Range(pages'[p].images)
       /\ last'.ret = y
       /\ \A i \in 1..Len(pages) : i # p => pages'[i] = pages[i]
       /\ Len(pages') = Len(pages)

\* C14: when the caller awaits each placeImage before any other operation,
\* a successful call appends its fragment, after the fragments of earlier
\* calls, and its resource name to the page that was current when the call
\* was initiated (the page it appended if it overflowed) and to no other
\* page, and returns the y used on that page.
C14_SerialPlacement == [][C14_Placed]_vars

\* C14's case: an awaited call that overflowed, resolved on a document that
\* already held an awaited image.
C14_Witness ==
  /\ last.op = "addImage" /\ last.phase = "resolved" /\ last.call.by = "client"
  /\ serial /\ last.call.over /\ Len(images) >= 2

C15_RestoredOnThrow ==
  (last'.op = "getOutput" /\ PassThrew') =>
    (currentPageIndex' = currentPageIndex /\ ~isApplyingHeaderFooter')
C15_OverflowStillApplied ==
  (last'.op = "addText" /\ C3_Over(last'.call)) =>
    (Len(pages') = Len(pages) + 1 /\ last'.ret = headerHeight + Pt(20))

\* C15: if a header or footer callback throws during the pass, the guard is
\* cleared and the current-page index restored before the failure reaches
\* the caller; no state between two operations has the guard set, and a
\* later overflowing placeText still gets its new page.
C15_GuardClearedOnThrow ==
  /\ []~isApplyingHeaderFooter
  /\ [][C15_RestoredOnThrow /\ C15_OverflowStillApplied]_vars

C16_InOutput ==
  OutputReturned =>
    \A c \in Range(pending) : ~(c.by # "client" /\ c.pass = last.request)
C16_OnItsPage ==
  (last'.op = "addImage" /\ last'.phase = "resolved" /\ last'.call.by # "client") =>
    LET n == last'.call.n
        content == pages'[n].content
    IN /\ Len(content) = Len(pages[n].content) + 1
       /\ content[Len(content)].kind = "image"
       /\ content[Len(content)].key \in Range(pages'[n].images)
       /\ \A i \in 1..Len(pages) : i # n => pages'[i] = pages[i]

\* C16: a placeImage issued by a header or footer callback for page n
\* records its fragment and its resource name on page n, whatever page is
\* current when its ingestion completes, and the image and the fragment
\* are in the output of the request whose pass ran the callback.
C16_CallbackImageOnItsPage == []C16_InOutput /\ [][C16_OnItsPage]_vars

\* The fragments of content that request p's pass issued, in order.
RECURSIVE C17_IssuedBy(_, _)
C17_IssuedBy(content, p) ==
  IF content = << >> THEN << >>
  ELSE (IF Head(content).by # "client" /\ Head(content).pass = p
        THEN <<Head(content)>> ELSE << >>) \o C17_IssuedBy(Tail(content), p)
C17_Tags(frags) ==
  [j \in 1..Len(frags) |-> [by |-> frags[j].by, n |-> frags[j].n, kind |-> frags[j].kind]]
\* What one run of the pass is to leave on page n under the configuration:
\* the header's fragment, then the footer's.
C17_Part(cb, dflt, text, n) ==
  IF cb \in DOMAIN config
  THEN IF config[cb].kind \in {"text", "image"}
       THEN <<[by |-> cb, n |-> n, kind |-> config[cb].kind]>> ELSE << >>
  ELSE IF dflt \in DOMAIN config /\ text # << >>
       THEN <<[by |-> dflt, n |-> n, kind |-> "text"]>> ELSE << >>
C17_Copy(n) ==
  C17_Part("onHeader", "defaultHeader",
           IF "defaultHeader" \in DOMAIN config
           THEN Opt(config.defaultHeader, "text", << >>) ELSE << >>, n)
  \o C17_Part("onFooter", "defaultFooter",
              IF "defaultFooter" \in DOMAIN config
              THEN FooterText(config.defaultFooter, n) ELSE << >>, n)
C17_OneMoreCopy ==
  (last'.op = "getOutput" /\ PassReturned') =>
    \A i \in 1..Len(pages) :
      LET new == C17_IssuedBy(pages'[i].content, requests')
      IN /\ pages'[i].content = pages[i].content \o new
         /\ C17_Tags(new) = C17_Copy(i)

\* C17: the pass is not idempotent: every output request runs it once more,
\* and each run appends to every page one further copy of that page's
\* header and footer fragments, behind what the page held, which stays as
\* it was.
C17_PassAppendsACopy == [][C17_OneMoreCopy]_vars

\* No callback of the configuration places images: every pending call is
\* the client's.
C18_OnlyClientImages ==
  \A k \in {"onHeader", "onFooter"} \cap DOMAIN config : config[k].kind # "image"
C18_AsBefore ==
  (last'.op = "addImage" /\ last'.phase = "rejected" /\ serial'
     /\ C18_OnlyClientImages) =>
    /\ pages' = last'.call.before.pages
    /\ currentPageIndex' = last'.call.before.currentPageIndex
    /\ objectCounter' = last'.call.before.objectCounter
    /\ images' = last'.call.before.images

\* C18: a placeImage call that rejects (awaited by its caller, nothing else
\* running) leaves the pages, the current-page index, the object counter
\* and the image registry exactly as they were before the call, also when
\* y + height was over the overflow bound.
C18_RejectLeavesDocument == [][C18_AsBefore]_vars

C19_HandledPages(pgs, p) ==
  {f.n : f \in UNION {Range(C17_IssuedBy(pgs[i].content, p)) : i \in 1..Len(pgs)}}
C19_OnlyPagesAtStart ==
  last'.op = "getOutput" =>
    /\ C19_HandledPages(pages', requests') \subseteq 1..Len(pages)
    /\ \A c \in Range(pending') :
         (c.by # "client" /\ c.pass = requests') => c.n \in 1..Len(pages)
    /\ \A i \in 1..Len(pages') :
         LET new == C17_IssuedBy(pages'[i].content, requests')
         IN \A j, k \in 1..Len(new) :
              (new[j].by = new[k].by /\ new[j].n = new[k].n) => j = k

\* C19: the pass handles exactly the pages that existed when it started,
\* each once, also when a callback calls startPage: no fragment of a run is
\* issued for a page number above the page count at its start, and none
\* twice for the same page.
C19_PassBoundedByStart == [][C19_OnlyPagesAtStart]_vars

C20_OnItsPage ==
  \A i \in 1..Len(pages) :
    \A f \in Range(pages[i].content) :
      (f.by # "client" /\ f.kind = "text") => f.n = i
C20_HeaderFirst ==
  \A i \in 1..Len(pages) :
    \A j, k \in 1..Len(pages[i].content) :
      LET a == pages[i].content[j]
          b == pages[i].content[k]
      IN (a.kind = "text" /\ b.kind = "text" /\ a.pass = b.pass /\ a.n = b.n
            /\ a.by \in {"onHeader", "defaultHeader"}
            /\ b.by \in {"onFooter", "defaultFooter"}) => j < k

\* C20: the pass handles the pages in document order with page number =
\* position, the header before the footer, and every placeText issued
\* synchronously for page n, by a callback or by the default header or
\* footer, appends its fragment to page n's content and to no other page.
C20_EachPageItsOwn == C20_OnItsPage /\ C20_HeaderFirst

\* The footer text the configuration asks for on page n: the page number is
\* added only when showPageNumbers is given and true.
C21_Requested(n) ==
  LET cfg == config.defaultFooter
      text == Opt(cfg, "text", << >>)
  IN IF "showPageNumbers" \in DOMAIN cfg /\ cfg.showPageNumbers
     THEN IF text # << >> THEN text \o <<" ", "-", " ">> \o PageWord \o Decimal(n)
          ELSE PageWord \o Decimal(n)
     ELSE text

\* C21: a default footer carries the page number only if showPageNumbers
\* asks for it: the literal text suffixed with " - Page n" (or "Page n"
\* alone) when it is true, exactly the literal text when it is false or not
\* given, and no fragment at all when that text is empty.
C21_PageNumberOnlyIfRequested ==
  \A f \in Frags :
    f.by = "defaultFooter" => (f.text = C21_Requested(f.n) /\ f.text # << >>)

C22_OnCompletionPage ==
  (last'.op = "addImage" /\ last'.phase = "resolved") =>
    LET call == last'.call
        p == currentPageIndex + 1
        content == pages'[p].content
    IN /\ currentPageIndex' = currentPageIndex
       /\ Len(content) = Len(pages[p].content) + 1
       /\ content = Append(pages[p].content, content[Len(content)])
       /\ content[Len(content)].kind = "image"
       /\ content[Len(content)].key \in Range(pages'[p].images)
       /\ \A i \in 1..Len(pages) : i # p => pages'[i] = pages[i]
       /\ last'.ret = (IF call.over THEN headerHeight + Pt(20) ELSE call.reqY)
       /\ content[Len(content)].pdfY = PAGE_HEIGHT - last'.ret - call.options.height

C23_Completed ==
  UNION {{<<i, j>> : j \in {k \in 1..Len(pages[i].content) :
                              pages[i].content[k].kind = "image"}} :
         i \in 1..Len(pages)}
C23_OwnKeyAndId ==
  /\ Cardinality(C23_Completed) = Len(images)
  /\ \A a, b \in C23_Completed :
       a # b => pages[a[1]].content[a[2]].key # pages[b[1]].content[b[2]].key
  /\ \A a \in C23_Completed : HasImage(images, pages[a[1]].content[a[2]].key)
  /\ \A i, j \in 1..Len(images) :
       i # j => (images[i].key # images[j].key /\ images[i].id # images[j].id)
C23_NeverOverwritten ==
  /\ Len(images') >= Len(images)
  /\ SubSeq(images', 1, Len(images)) = images

\* C23: under any interleaving of placeImage calls in flight together, each
\* call that completes gets a key and an id of its own: the registry has
\* one entry per completion, no two share a key or an id, and no entry is
\* ever overwritten.
C23_CompletionsKeepOwnEntries == []C23_OwnKeyAndId /\ [][C23_NeverOverwritten]_vars

\* C23's case: two calls in flight together, both completed, the one
\* initiated on an empty registry completing last.
C23_Witness ==
  /\ last.op = "addImage" /\ last.phase = "resolved" /\ ~serial
  /\ Len(images) = 2 /\ last.call.before.images = << >>
  /\ Len(last.call.before.pages) < Len(pages)

\* A client's placeText that appended no page.
C24_NoOverflow == last'.op = "addText" /\ Len(pages') = Len(pages)
C24_Frame ==
  C24_NoOverflow =>
    LET p == currentPageIndex + 1
        content == pages'[p].content
        color == Opt(last'.call.options, "color", DefaultColor)
    IN /\ currentPageIndex' = currentPageIndex
       /\ Len(content) = Len(pages[p].content) + 1
       /\ content = Append(pages[p].content, content[Len(content)])
       /\ content[Len(content)].kind = "text"
       /\ content[Len(content)].text = last'.call.text
       /\ (color = Red => content[Len(content)].rgb = [r |-> 255, g |-> 0, b |-> 0])
       /\ (color = DefaultColor =>
             content[Len(content)].rgb = [r |-> 0, g |-> 0, b |-> 0])
       /\ pages'[p].id = pages[p].id /\ pages'[p].images = pages[p].images
       /\ \A q \in 1..Len(pages) : q # p => pages'[q] = pages[q]
       /\ objectCounter' = objectCounter
       /\ images' = images
\* Every page but the first was started by startPage, so the page started
\* last is the last page: the placement goes there.
C24_OnNewPage ==
  (C24_NoOverflow /\ startPageCalls > 0 /\ Len(pages) = 1 + startPageCalls) =>
    pages'[Len(pages)].content # pages[Len(pages)].content
\* A placement or a startPage keeps the pages before the last one as they are.
C24_EarlierPagesKept ==
  (last'.op \in {"addText", "addImage", "addPage"}
     /\ Len(pages) = 1 + startPageCalls) =>
    /\ Len(pages') >= Len(pages)
    /\ \A q \in 1..(Len(pages) - 1) : pages'[q] = pages[q]

\* C24: a placeText that does not overflow appends exactly one fragment,
\* with the call's decoded colour, to the end of the current page and
\* leaves the other pages, the page count, the counter and the registry
\* alone; after startPage later placements go to the new page and the
\* earlier pages are never modified, removed or reordered.
C24_PlaceTextFrame == [][C24_Frame /\ C24_OnNewPage /\ C24_EarlierPagesKept]_vars

\* The object the build must emit in position k: its kind and its id.
C25_Expected(k) ==
  LET np == Len(pages)
  IN CASE k = 1 -> [kind |-> "catalog", id |-> last.out.catalog.id]
       [] k = 2 -> [kind |-> "pages", id |-> last.out.catalog.pages]
       [] k > 2 /\ k <= 2 + 2 * np /\ k % 2 = 1 ->
            [kind |-> "page", id |-> pages[(k - 1) \div 2].id]
       [] k > 2 /\ k <= 2 + 2 * np /\ k % 2 = 0 ->
            [kind |-> "content", id |-> pages[(k - 2) \div 2].contentId]
       [] OTHER -> [kind |-> "image", id |-> images[k - 2 - 2 * np].id]

\* C25: a build emits the catalog, the page-tree root, each page in
\* document order immediately followed by its content stream, then each
\* image in registration order, whatever their ids; the recorded offsets
\* strictly increase along that order and each object is emitted once.
C25_FixedEmissionOrder ==
  OutputReturned =>
    LET objs == last.out.objects
    IN /\ Len(objs) = 2 + 2 * Len(pages) + Len(images)
       /\ \A k \in 1..Len(objs) :
            /\ objs[k].kind = C25_Expected(k).kind
            /\ objs[k].id = C25_Expected(k).id
       /\ \A k \in 1..(Len(objs) - 1) : objs[k].offset < objs[k + 1].offset
       /\ \A j, k \in 1..Len(objs) : j # k => objs[j].id # objs[k].id

\* C25's case: a build whose emission order is not the order of the ids, an
\* image having been registered before the last page was started.
C25_Witness ==
  /\ OutputReturned /\ Len(images) >= 1 /\ Len(pages) >= 2
  /\ images[1].id < pages[Len(pages)].id

\* Every name a fragment of page i uses is a resource of page i, and every
\* image name is a key of the registry.
C26_ResourcesCoverContent ==
  \A i \in 1..Len(pages) : \A f \in Range(pages[i].content) :
    /\ f.kind = "text" => f.font \in Range(pages[i].fonts)
    /\ f.kind = "image" =>
         (f.key \in Range(pages[i].images) /\ HasImage(images, f.key))
\* In a serialized page dictionary every name a fragment uses is declared,
\* an image name with the id its key has in the registry, which is the id
\* of an emitted image object.
C26_DictsReferToRegistry ==
  OutputReturned =>
    \A i \in 1..Len(pages) : \A f \in Range(pages[i].content) :
      /\ f.kind = "text" =>
           \E e \in Range(last.out.pageDicts[i].fonts) : e.name = f.font
      /\ f.kind = "image" =>
           \E e \in Range(last.out.pageDicts[i].xobjects) :
             /\ e.name = f.key
             /\ \E k \in 1..Len(images) : images[k].key = f.key /\ images[k].id = e.id
             /\ \E o \in Range(last.out.objects) : o.kind = "image" /\ o.id = e.id

\* C26: after any sequence of operations, on every page each font a
\* fragment selects is in the page's font set, each image a fragment paints
\* is in the page's image set and a key of the registry, and the serialized
\* page dictionary gives each image name the id registered for that key.
C26_ResourcesClosed == C26_ResourcesCoverContent /\ C26_DictsReferToRegistry

\* C26's case: a serialized document where a page holds both a text and an
\* image, and another page holds a fragment too.
C26_Witness ==
  /\ OutputReturned /\ Len(pages) >= 2
  /\ \E i \in 1..Len(pages) :
       /\ \E f \in Range(pages[i].content) : f.kind = "image"
       /\ \E f \in Range(pages[i].content) : f.kind = "text"

\* Before the first output request the counter is one past the ids given
\* to the pages, their content streams and the images.
C27_BeforeFirstRequest ==
  requests = 0 => objectCounter = 1 + 2 * Len(pages) + Len(images)
C27_ContentFollowsPage ==
  \A i \in 1..Len(pages) : pages[i].contentId = pages[i].id + 1
C27_FirstRequest == requests = 0 /\ last'.op = "getOutput"
C27_RaisedByTwo == C27_FirstRequest => objectCounter' = objectCounter + 2
\* What the first request adds: two ids for every page a callback started
\* during the pass, and the catalog's and the page tree's when the pass
\* returned.
C27_RaisedByPassAndRoots ==
  C27_FirstRequest =>
    objectCounter' = objectCounter + 2 * (Len(pages') - Len(pages))
                       + (IF PassThrew' THEN 0 ELSE 2)

\* C27 as stated: before the first output request nextId is
\* 1 + 2 * pages + images, the first request raises it by exactly 2, and
\* every page's content-stream id is its own id + 1.
C27_AllocatorExactlyTwo ==
  /\ [](C27_BeforeFirstRequest /\ C27_ContentFollowsPage)
  /\ [][C27_RaisedByTwo]_vars

\* C27, amended: before the first output request nextId is
\* 1 + 2 * pages + images; the first request raises it by 2 for each page
\* a callback starts during the pass, plus 2 (catalog, page-tree root)
\* unless the pass throws; every page's content-stream id is its id + 1.
C27_AllocatorAccounting ==
  /\ [](C27_BeforeFirstRequest /\ C27_ContentFollowsPage)
  /\ [][C27_RaisedByPassAndRoots]_vars

\* C27's case: a first output request, the only operation so far, during
\* which a callback started a page, with an image registered or not.
C27_Witness ==
  /\ last.op = "getOutput" /\ last.request = 1 /\ ops = 1
  /\ Len(pages) = 2 /\ objectCounter = 7

\* C28: in every state outside a header/footer pass the current-page index
\* is that of the last page, pages.length - 1, so a placement outside the
\* pass targets the page appended last.  (A pass runs within one getOutput
\* call, so every state between operations is outside it.)
C28_CursorOnLastPage == currentPageIndex = Len(pages) - 1

\* The literal the escaping rule asks for: character by character, a
\* backslash before each backslash and each parenthesis, nothing else.
C29_Escaped(text) ==
  Flatten([i \in 1..Len(text) |->
             IF text[i] \in {BACKSLASH, "(", ")"} THEN <<BACKSLASH, text[i]>>
             ELSE <<text[i]>>])
\* A reader's un-escaping of a literal: a backslash gives the character
\* after it its escaped meaning (a line feed for n, itself for a backslash
\* or a parenthesis).
RECURSIVE C29_Unescape(_)
C29_Unescape(lit) ==
  IF lit = << >> THEN << >>
  ELSE IF lit[1] = BACKSLASH /\ Len(lit) >= 2
       THEN <<IF lit[2] = "n" THEN "\n" ELSE lit[2]>>
              \o C29_Unescape(SubSeq(lit, 3, Len(lit)))
       ELSE IF lit[1] = BACKSLASH THEN << >>
       ELSE <<lit[1]>> \o C29_Unescape(Tail(lit))
\* A parenthesis, or a dangling backslash, that a reader takes as syntax.
RECURSIVE C29_Unescaped(_)
C29_Unescaped(lit) ==
  IF lit = << >> THEN FALSE
  ELSE IF lit[1] = BACKSLASH
       THEN Len(lit) = 1 \/ C29_Unescaped(SubSeq(lit, 3, Len(lit)))
       ELSE lit[1] \in {"(", ")"} \/ C29_Unescaped(Tail(lit))

\* C29: in the literal emitted for any text every backslash is written as
\* two backslashes and every parenthesis is preceded by one backslash, no
\* character being escaped twice; un-escaping the literal gives the text
\* back, and the literal holds no unescaped parenthesis.
C29_EscapingRoundTrips ==
  \A f \in Frags :
    f.kind = "text" =>
      /\ f.lit = C29_Escaped(f.text)
      /\ C29_Unescape(f.lit) = f.text
      /\ ~C29_Unescaped(f.lit)

\* C29's case: a text where a backslash stands before a parenthesis and
\* before an n, placed.
C29_Witness ==
  \E f \in Frags : f.text = <<BACKSLASH, "(", BACKSLASH, "n">>
                     /\ f.lit = <<BACKSLASH, BACKSLASH, BACKSLASH, "(",
                                  BACKSLASH, BACKSLASH, "n">>

\* The value of a hexadecimal digit, in either case.
C30_Digit ==
  [c \in {"0","1","2","3","4","5","6","7","8","9","a","b","c","d","e","f",
          "A","B","C","D","E","F"} |->
     CASE c = "0" -> 0 [] c = "1" -> 1 [] c = "2" -> 2 [] c = "3" -> 3
       [] c = "4" -> 4 [] c = "5" -> 5 [] c = "6" -> 6 [] c = "7" -> 7
       [] c = "8" -> 8 [] c = "9" -> 9 [] c \in {"a", "A"} -> 10
       [] c \in {"b", "B"} -> 11 [] c \in {"c", "C"} -> 12
       [] c \in {"d", "D"} -> 13 [] c \in {"e", "E"} -> 14
       [] c \in {"f", "F"} -> 15]
\* Six hexadecimal digits, with or without one leading '#'.
C30_SixDigits(hex) ==
  \/ Len(hex) = 6 /\ \A i \in 1..6 : hex[i] \in DOMAIN C30_Digit
  \/ Len(hex) = 7 /\ hex[1] = "#" /\ \A i \in 2..7 : hex[i] \in DOMAIN C30_Digit
\* The byte that the two digits ending at position k from the end stand for.
C30_Byte(hex, k) ==
  16 * C30_Digit[hex[Len(hex) - k - 1]] + C30_Digit[hex[Len(hex) - k]]
C30_Decoded ==
  (last.op = "addText" /\ "color" \in DOMAIN last.call.options) =>
    LET hex == last.call.options.color
        rgb == pages[1].content[1].rgb
    IN /\ rgb.r \in 0..255 /\ rgb.g \in 0..255 /\ rgb.b \in 0..255
       /\ IF C30_SixDigits(hex)
          THEN rgb = [r |-> C30_Byte(hex, 4), g |-> C30_Byte(hex, 2),
                      b |-> C30_Byte(hex, 0)]
          ELSE rgb = [r |-> 0, g |-> 0, b |-> 0]

\* C30: a string of six hexadecimal digits, with or without a leading '#',
\* in either letter case, decodes to its bytes R, G, B over 255, each channel
\* in [0,1] (the model keeps the byte n for n/255); every other string
\* decodes to black.
C30_ColourDecoding ==
  /\ C30_Decoded
  /\ (last.op = "addText" /\ "color" \in DOMAIN last.call.options
        /\ last.call.options.color = <<"#","F","F","8","0","0","a">>) =>
       pages[1].content[1].rgb = [r |-> 255, g |-> 128, b |-> 10]

\* C30's case: a mixed-case colour without '#' decoded to a colour that is
\* not black.
C30_Witness ==
  /\ last.op = "addText" /\ "color" \in DOMAIN last.call.options
  /\ last.call.options.color = <<"A","b","F","F","0","a">>
  /\ pages[1].content[1].rgb = [r |-> 171, g |-> 255, b |-> 10]

====
